---------------------------- MODULE Spec2Model ----------------------------
(***************************************************************************)
(* A model of the four scripts of af3_report:                              *)
(*   create_report.py              PDF report of the job-request files     *)
(*   plot_summary.py               summary heatmaps, one PNG per file      *)
(*   plot_pae_plddt_contact.py     combined pLDDT/PAE/contact plot per file*)
(*   plot_iptm_ptm_models.py       boxplots aggregated over all files      *)
(* Each script is a sequential program; pc is its position.  JSON objects  *)
(* are records (a key is present iff it is in the record's DOMAIN), JSON   *)
(* lists and Python lists are sequences, text is a sequence of characters. *)
(***************************************************************************)
EXTENDS Integers, Sequences, FiniteSets, TLC

VARIABLES
    script,             \* which program runs
    files,              \* the files matched by glob, each with its content
    pc,                 \* position in the program
    idx,                \* loop index over files (1-based)
    outDir,             \* TRUE once the output directory was created
    outputs,            \* the output files written
    printed,            \* the messages printed, in order
    raised,             \* the exception that ended the program, or "none"
    opened,             \* indices of the files opened so far, in order
    figs,               \* matplotlib's open figures, the current one last
    data,               \* create_report: the parsed JSON of the current file
    last_used_index,    \* create_report: the running chain-label offset
    drawn,              \* create_report: drawString calls on the current canvas
    y_position,         \* create_report: the pagination cursor
    pages,              \* create_report: number of showPage calls
    aggregated_chain_iptm_data,  \* plot_iptm_ptm_models: one series per chain
    aggregated_chain_ptm_data,
    all_labels,         \* plot_iptm_ptm_models: labels of the last loaded file
    boxplots,           \* plot_iptm_ptm_models: the calls of plot_boxplot
    args,               \* arguments of a function applied on its own
    result              \* its return value

vars == << script, files, pc, idx, outDir, outputs, printed, raised, opened,
           figs, data, last_used_index, drawn, y_position, pages,
           aggregated_chain_iptm_data, aggregated_chain_ptm_data, all_labels,
           boxplots, args, result >>

batchVars == << files, idx, outDir, outputs, printed, raised, opened, figs >>
reportVars == << data, last_used_index, drawn, y_position, pages >>
iptmVars == << aggregated_chain_iptm_data, aggregated_chain_ptm_data,
               all_labels, boxplots >>
funVars == << args, result >>

(***************************************************************************)
(* Bounds of the model.                                                    *)
(***************************************************************************)
MaxFiles == 3          \* matched files per run of a batch script
MaxSeqs == 2           \* sequences in one job-request file
MaxSummaries == 3      \* matched files per run of plot_iptm_ptm_models
MaxChains == 2         \* chains in one summary_confidences file
MaxStart == 702        \* start_index given to generate_chain_labels
MaxCount == 3          \* count given to generate_chain_labels
MaxWordLen == 2        \* length of the words decoded to an index
MaxTextLen == 5        \* length of the text given to wrap_long_text
MaxWidth == 3          \* max_length given to wrap_long_text
MaxTokens == 4         \* tokens in a list given to add_chain_boundaries
MaxDrawnChains == 21   \* chains of a complex whose chains are coloured

(***************************************************************************)
(* Python values.                                                          *)
(***************************************************************************)
None == [none |-> TRUE]

\* np.array(x)
Array(x) == [array |-> x]

\* d[k] raises KeyError iff k is not a key of d
HasKey(d, k) == k \in DOMAIN d

\* d.get(k, default)
Get(d, k, default) == IF k \in DOMAIN d THEN d[k] ELSE default

\* string.ascii_uppercase
alphabet == << "A", "B", "C", "D", "E", "F", "G", "H", "I", "J", "K", "L", "M",
               "N", "O", "P", "Q", "R", "S", "T", "U", "V", "W", "X", "Y", "Z" >>

(***************************************************************************)
(* create_report.generate_chain_labels                                     *)
(***************************************************************************)
\* A slip in the carry: plain base 26 (n // 26 without the - 1, stopping
\* after the leading digit), so that 26 reads BA instead of AA.
RECURSIVE ChainLabel_PlainBase26(_, _)
ChainLabel_PlainBase26(n, label) ==
    IF n >= 0
    THEN ChainLabel_PlainBase26(IF n < 26 THEN -1 ELSE n \div 26,
                                << alphabet[(n % 26) + 1] >> \o label)
    ELSE label

\* The while loop of lines 32-34, from n and the label built so far.
RECURSIVE ChainLabel(_, _)
ChainLabel(n, label) ==
    IF n >= 0
    THEN ChainLabel((n \div 26) - 1, << alphabet[(n % 26) + 1] >> \o label)
    ELSE label

\* range(count) is empty for count <= 0
generate_chain_labels(start_index, count) ==
    [i \in 1..count |-> ChainLabel(start_index + (i - 1), << >>)]

(***************************************************************************)
(* create_report.wrap_long_text                                            *)
(***************************************************************************)
\* text[i:i + max_length], i counted from 0: a slice stops at the text's end
Slice(text, i, max_length) ==
    SubSeq(text, i + 1, IF i + max_length > Len(text) THEN Len(text)
                        ELSE i + max_length)

\* A slip in the stride: windows of max_length taken every max_length + 1.
wrap_long_text_Skip(text, max_length) ==
    LET n == (Len(text) + max_length) \div (max_length + 1)
    IN  [k \in 1..n |-> Slice(text, (k - 1) * (max_length + 1), max_length)]

\* [text[i:i + max_length] for i in range(0, len(text), max_length)]
wrap_long_text(text, max_length) ==
    LET n == (Len(text) + max_length - 1) \div max_length
    IN  [k \in 1..n |-> Slice(text, (k - 1) * max_length, max_length)]

(***************************************************************************)
(* create_report.generate_alphafold_pdf_report: the labelling pass         *)
(***************************************************************************)
\* sequence["chainLabels"] = chain_labels
SetKey(d, k, v) == [x \in DOMAIN d \cup {k} |-> IF x = k THEN v ELSE d[x]]

\* The body of the inner loop (lines 42-53) on one sequence: the sequence
\* as it is left, the new offset, and the exception raised if any.
LabelSequence(sequence, last) ==
    LET kind == IF HasKey(sequence, "proteinChain") THEN "proteinChain"
                ELSE IF HasKey(sequence, "dnaSequence") THEN "dnaSequence"
                ELSE "neither"
    IN  IF kind = "neither"
        THEN [sequence |-> sequence, last |-> last, err |-> "none"]
        ELSE LET seq == sequence[kind]
             IN  IF ~HasKey(seq, "count")
                 THEN [sequence |-> sequence, last |-> last, err |-> "KeyError"]
                 ELSE [sequence |-> SetKey(sequence, "chainLabels",
                                      generate_chain_labels(last, seq.count)),
                       last |-> last + seq.count,
                       err |-> "none"]

\* for sequence in entry["sequences"], from the i-th sequence on
RECURSIVE LabelSequences(_, _, _)
LabelSequences(sequences, i, last) ==
    IF i > Len(sequences)
    THEN [sequences |-> sequences, last |-> last, err |-> "none"]
    ELSE LET r == LabelSequence(sequences[i], last)
             done == [sequences EXCEPT ![i] = r.sequence]
         IN  IF r.err # "none"
             THEN [sequences |-> done, last |-> r.last, err |-> r.err]
             ELSE LabelSequences(done, i + 1, r.last)

\* A slip that starts the offset again at every entry.
RECURSIVE LabelEntries_ResetPerEntry(_, _, _)
LabelEntries_ResetPerEntry(d, e, last) ==
    IF e > Len(d)
    THEN [data |-> d, last |-> last, err |-> "none"]
    ELSE IF ~HasKey(d[e], "sequences")
         THEN [data |-> d, last |-> last, err |-> "KeyError"]
         ELSE LET r == LabelSequences(d[e].sequences, 1, 0)
                  done == [d EXCEPT ![e] = SetKey(d[e], "sequences", r.sequences)]
              IN  IF r.err # "none"
                  THEN [data |-> done, last |-> last + r.last, err |-> r.err]
                  ELSE LabelEntries_ResetPerEntry(done, e + 1, last + r.last)

\* for entry in data, from the e-th entry on (lines 40-53)
RECURSIVE LabelEntries(_, _, _)
LabelEntries(d, e, last) ==
    IF e > Len(d)
    THEN [data |-> d, last |-> last, err |-> "none"]
    ELSE IF ~HasKey(d[e], "sequences")
         THEN [data |-> d, last |-> last, err |-> "KeyError"]
         ELSE LET r == LabelSequences(d[e].sequences, 1, last)
                  done == [d EXCEPT ![e] = SetKey(d[e], "sequences", r.sequences)]
              IN  IF r.err # "none"
                  THEN [data |-> done, last |-> r.last, err |-> r.err]
                  ELSE LabelEntries(done, e + 1, r.last)

(***************************************************************************)
(* create_report.generate_alphafold_pdf_report: the rendering pass         *)
(***************************************************************************)
height == 792              \* width, height = letter
margin == 50
line_spacing == 14
max_line_length == 60

\* The canvas and the cursor: st.y is y_position, st.pages counts showPage,
\* st.draws lists the drawString calls, st.err is the exception raised.
Canvas0 == [y |-> height - margin, pages |-> 0, draws |-> << >>, err |-> "none"]

\* pdf.drawString(x, y_position, text)
DrawString(st, x, what, text) ==
    [st EXCEPT !.draws = Append(@, [x |-> x, y |-> st.y, what |-> what,
                                    text |-> text, page |-> st.pages + 1])]

\* y_position -= line_spacing
Down(st) == [st EXCEPT !.y = @ - line_spacing]

RaiseIn(st, e) == [st EXCEPT !.err = e]

\* if y_position < margin: showPage, reset the cursor (lines 119-122, 126-129)
NewPageIfNeeded(st) ==
    IF st.y < margin
    THEN [st EXCEPT !.pages = @ + 1, !.y = height - margin]
    ELSE st

\* for line in sequence_lines: drawString, y_position -= line_spacing
\* (nothing raises inside this loop: reading st.err only has st evaluated at
\* every turn of the loop, as the program does)
RECURSIVE DrawLines(_, _, _)
DrawLines(lines, k, st) ==
    IF k > Len(lines) \/ st.err # "none"
    THEN st
    ELSE DrawLines(lines, k + 1,
                   Down(DrawString(st, margin + 40, "line", lines[k])))

\* The branch of one proteinChain or dnaSequence (lines 93-103, 106-116).
RenderChain(kind, seq, chain_labels, st) ==
    LET s1 == Down(st)
    IN  IF ~HasKey(seq, "count") \/ ~HasKey(seq, "sequence")
        THEN RaiseIn(s1, "KeyError")
        ELSE LET header == [kind |-> kind, chains |-> chain_labels,
                            count |-> seq.count, length |-> Len(seq.sequence)]
                 s2 == Down(DrawString(s1, margin + 20, "header", header))
             IN  DrawLines(wrap_long_text(seq.sequence, max_line_length), 1, s2)

\* The body of the loop over entry["sequences"] (lines 89-122).
RenderSequence(sequence, st) ==
    IF ~HasKey(sequence, "chainLabels")
    THEN RaiseIn(st, "KeyError")
    ELSE LET s1 == IF HasKey(sequence, "proteinChain")
                   THEN RenderChain("proteinChain", sequence.proteinChain,
                                    sequence.chainLabels, st)
                   ELSE IF HasKey(sequence, "dnaSequence")
                   THEN RenderChain("dnaSequence", sequence.dnaSequence,
                                    sequence.chainLabels, st)
                   ELSE st
         IN  IF s1.err # "none" THEN s1 ELSE NewPageIfNeeded(s1)

RECURSIVE RenderSequences(_, _, _)
RenderSequences(sequences, i, st) ==
    IF i > Len(sequences) \/ st.err # "none"
    THEN st
    ELSE RenderSequences(sequences, i + 1, RenderSequence(sequences[i], st))

\* The body of the loop over data (lines 72-129).
RenderEntry(entry, st) ==
    IF ~HasKey(entry, "name")
    THEN RaiseIn(st, "KeyError")
    ELSE LET s1 == Down(DrawString(st, margin, "title", entry.name))
         IN  IF ~HasKey(entry, "modelSeeds")
             THEN RaiseIn(s1, "KeyError")
             ELSE LET s2 == Down(DrawString(s1, margin, "seeds", entry.modelSeeds))
                      s3 == Down(DrawString(s2, margin, "sequences", "Sequences:"))
                  IN  IF ~HasKey(entry, "sequences")
                      THEN RaiseIn(s3, "KeyError")
                      ELSE LET s4 == RenderSequences(entry.sequences, 1, s3)
                           IN  IF s4.err # "none"
                               THEN s4
                               ELSE NewPageIfNeeded(Down(s4))

RECURSIVE RenderEntries(_, _, _)
RenderEntries(d, e, st) ==
    IF e > Len(d) \/ st.err # "none"
    THEN st
    ELSE RenderEntries(d, e + 1, RenderEntry(d[e], st))

(***************************************************************************)
(* Inputs: the content of the files the scripts read.                      *)
(***************************************************************************)
\* All sequences over S of length at most n.
SeqsUpTo(S, n) == UNION {[1..k -> S] : k \in 0..n}

DropKey(d, k) == [x \in DOMAIN d \ {k} |-> d[x]]

Residues == << "M", "K", "T", "A", "Y" >>

\* A text of n residues.
Text(n) == [i \in 1..n |-> Residues[((i - 1) % Len(Residues)) + 1]]

\* {"proteinChain": {"sequence": ..., "count": ...}} and its like
Chain(kind, count, text) == kind :> [sequence |-> text, count |-> count]

\* One entry of a job-request file.
Entry(sequences) ==
    [name |-> "job", modelSeeds |-> << "1" >>, sequences |-> sequences]

\* A file whose text is not JSON, and a file holding the JSON value d.
Malformed == [json_ok |-> FALSE, data |-> << >>]
Json(d) == [json_ok |-> TRUE, data |-> d]

LongText == 2701       \* a sequence long enough to fill a page

\* The sequences a job-request file is made of here: every kind of chain with
\* a few counts and lengths around max_line_length, and one long protein.
SeqChoices ==
    {Chain(k, p[1], Text(p[2])) :
        k \in {"proteinChain", "dnaSequence"},
        p \in {<<1, 1>>, <<2, max_line_length + 1>>,
               <<Len(alphabet), max_line_length>>, <<0, 0>>}}
    \cup {Chain("rnaSequence", 1, Text(1)),
          Chain("proteinChain", 1, Text(LongText))}

\* The job-request files of at most MaxSeqs sequences, in no entry (an empty
\* list), one entry, or two entries.
JobRequests ==
    {Json(<< >>)}
    \cup {Json(<< Entry(flat) >>) : flat \in SeqsUpTo(SeqChoices, MaxSeqs)}
    \cup UNION {{Json(<< Entry(SubSeq(flat, 1, c)),
                        Entry(SubSeq(flat, c + 1, Len(flat))) >>) :
                    c \in 0..Len(flat)} :
                flat \in SeqsUpTo(SeqChoices, MaxSeqs)}

\* A well-formed job-request file, and the same file with one thing wrong.
GoodJob == Json(<< Entry(<< Chain("proteinChain", 2, Text(max_line_length + 1)),
                            Chain("dnaSequence", 1, Text(1)) >>) >>)

JobWithout(key) ==
    Json(<< DropKey(Entry(<< Chain("proteinChain", 1, Text(1)) >>), key) >>)

JobChainWithout(key) ==
    Json(<< Entry(<< "proteinChain" :>
                     DropKey([sequence |-> Text(1), count |-> 1], key) >>) >>)

JobFiles ==
    {GoodJob, Malformed,
     Json(<< Entry(<< Chain("rnaSequence", 1, Text(1)) >>) >>)}
    \cup {JobWithout(k) : k \in {"name", "modelSeeds", "sequences"}}
    \cup {JobChainWithout(k) : k \in {"count", "sequence"}}

Msg(m, f) == [msg |-> m, file |-> f]

(***************************************************************************)
(* create_report.main                                                      *)
(***************************************************************************)
\* A slip in the order of main: the output directory made before the search.
MainNoFiles_MakedirsFirst ==
    /\ script = "create_report" /\ pc = "start"
    /\ files = << >>
    /\ outDir' = TRUE
    /\ printed' = Append(printed, Msg("Error: No files matching", 0))
    /\ pc' = "done"
    /\ UNCHANGED << script, files, idx, outputs, raised, opened, figs,
                    reportVars, iptmVars, funVars >>

\* find_json_files raises FileNotFoundError, which main catches (line 160).
MainNoFiles ==
    /\ script = "create_report" /\ pc = "start"
    /\ files = << >>
    /\ printed' = Append(printed, Msg("Error: No files matching", 0))
    /\ pc' = "done"
    /\ UNCHANGED << script, files, idx, outDir, outputs, raised, opened, figs,
                    reportVars, iptmVars, funVars >>

\* Lines 146-151: the files are found and the output directory is made.
MainFound ==
    /\ script = "create_report" /\ pc = "start"
    /\ files # << >>
    /\ printed' = Append(printed, Msg("Found JSON files", 0))
    /\ outDir' = TRUE
    /\ idx' = 1
    /\ pc' = "loop"
    /\ UNCHANGED << script, files, outputs, raised, opened, figs,
                    reportVars, iptmVars, funVars >>

\* Lines 153-156: the next file of the loop.
MainNext ==
    /\ script = "create_report" /\ pc = "loop"
    /\ idx <= Len(files)
    /\ printed' = Append(printed, Msg("Generating PDF for", idx))
    /\ pc' = "open"
    /\ UNCHANGED << script, files, idx, outDir, outputs, raised, opened, figs,
                    reportVars, iptmVars, funVars >>

MainEnd ==
    /\ script = "create_report" /\ pc = "loop"
    /\ idx > Len(files)
    /\ pc' = "done"
    /\ UNCHANGED << script, batchVars, reportVars, iptmVars, funVars >>

\* Lines 19-21: the file is opened and parsed.
ReportLoad ==
    /\ script = "create_report" /\ pc = "open"
    /\ files[idx].json_ok
    /\ opened' = Append(opened, idx)
    /\ data' = files[idx].data
    /\ printed' = Append(printed, Msg("Processing JSON file", idx))
    /\ pc' = "label"
    /\ UNCHANGED << script, files, idx, outDir, outputs, raised, figs,
                    last_used_index, drawn, y_position, pages,
                    iptmVars, funVars >>

\* json.load raises JSONDecodeError; main's except Exception (line 162)
\* catches it outside the loop, which ends the loop.
ReportLoadFails ==
    /\ script = "create_report" /\ pc = "open"
    /\ ~files[idx].json_ok
    /\ opened' = Append(opened, idx)
    /\ printed' = Append(printed, Msg("Unexpected error", idx))
    /\ pc' = "done"
    /\ UNCHANGED << script, files, idx, outDir, outputs, raised, figs,
                    reportVars, iptmVars, funVars >>

\* Lines 39-53: the labelling pass.
ReportLabel ==
    /\ script = "create_report" /\ pc = "label"
    /\ LET r == LabelEntries(data, 1, 0)
       IN  /\ r.err = "none"
           /\ data' = r.data
           /\ last_used_index' = r.last
    /\ pc' = "render"
    /\ UNCHANGED << script, batchVars, drawn, y_position, pages,
                    iptmVars, funVars >>

ReportLabelFails ==
    /\ script = "create_report" /\ pc = "label"
    /\ LET r == LabelEntries(data, 1, 0)
       IN  /\ r.err # "none"
           /\ data' = r.data
           /\ last_used_index' = r.last
    /\ printed' = Append(printed, Msg("Unexpected error", idx))
    /\ pc' = "done"
    /\ UNCHANGED << script, files, idx, outDir, outputs, raised, opened, figs,
                    drawn, y_position, pages, iptmVars, funVars >>

\* Lines 56-129: the canvas is made and every entry is drawn.
ReportRender ==
    /\ script = "create_report" /\ pc = "render"
    /\ LET st == RenderEntries(data, 1, Canvas0)
       IN  /\ st.err = "none"
           /\ drawn' = st.draws
           /\ y_position' = st.y
           /\ pages' = st.pages
    /\ pc' = "save"
    /\ UNCHANGED << script, batchVars, data, last_used_index,
                    iptmVars, funVars >>

\* An exception in the rendering pass leaves the canvas unsaved.
ReportRenderFails ==
    /\ script = "create_report" /\ pc = "render"
    /\ LET st == RenderEntries(data, 1, Canvas0)
       IN  /\ st.err # "none"
           /\ drawn' = st.draws
           /\ y_position' = st.y
           /\ pages' = st.pages
    /\ printed' = Append(printed, Msg("Unexpected error", idx))
    /\ pc' = "done"
    /\ UNCHANGED << script, files, idx, outDir, outputs, raised, opened, figs,
                    data, last_used_index, iptmVars, funVars >>

\* A slip that leaves the canvas unsaved when the loop goes on.
ReportSave_Unsaved ==
    /\ script = "create_report" /\ pc = "save"
    /\ printed' = Append(printed, Msg("Generated PDF", idx))
    /\ idx' = idx + 1
    /\ pc' = "loop"
    /\ UNCHANGED << script, files, outDir, outputs, raised, opened, figs,
                    reportVars, iptmVars, funVars >>

\* Line 132 and line 158: the PDF is saved, and the loop goes on.
ReportSave ==
    /\ script = "create_report" /\ pc = "save"
    /\ outputs' = outputs \cup {[file |-> idx, name |-> "af_report.pdf",
                                 fig |-> None]}
    /\ printed' = Append(printed, Msg("Generated PDF", idx))
    /\ idx' = idx + 1
    /\ pc' = "loop"
    /\ UNCHANGED << script, files, outDir, raised, opened, figs,
                    reportVars, iptmVars, funVars >>

(***************************************************************************)
(* Inputs of the plotting scripts.                                         *)
(***************************************************************************)
\* An n x n matrix filled with v.
Square(n, v) == [i \in 1..n |-> [j \in 1..n |-> v]]

\* A summary_confidences file of n chain_iptm and m chain_ptm scores; the
\* scores tell the file (seed), the metric and the chain apart.
SummaryData(n, m, seed) ==
    [chain_pair_iptm |-> Square(n, seed),
     chain_pair_pae_min |-> Square(n, seed),
     chain_iptm |-> [i \in 1..n |-> 100 * seed + i],
     chain_ptm |-> [i \in 1..m |-> 100 * seed + 10 + i],
     ranking_score |-> seed]

SummaryKeys == {"chain_pair_iptm", "chain_pair_pae_min", "chain_iptm", "chain_ptm"}

\* The files plot_summary is run on.
SummaryFiles ==
    {Malformed, Json(SummaryData(2, 2, 1))}
    \cup {Json(DropKey(SummaryData(2, 2, 1), k)) : k \in SummaryKeys}

\* A full_data file of n tokens, all of chain A.
FullData(n) ==
    [pae |-> Square(n, 1),
     atom_plddts |-> [i \in 1..n |-> 90],
     token_chain_ids |-> [i \in 1..n |-> "A"],
     token_res_ids |-> [i \in 1..n |-> i],
     contact_probs |-> Square(n, 0)]

\* The files plot_pae_plddt_contact is run on.
FullDataFiles ==
    {Malformed, Json(FullData(2)),
     Json(DropKey(FullData(2), "pae")),
     Json(DropKey(FullData(2), "atom_plddts")),
     Json([FullData(2) EXCEPT !.pae = << >>]),
     Json([FullData(2) EXCEPT !.atom_plddts = << >>])}

\* The files plot_iptm_ptm_models is run on in a batch of up to MaxFiles.
IptmFiles ==
    {Malformed, Json(SummaryData(1, 1, 1)), Json(SummaryData(2, 2, 2)),
     Json(DropKey(SummaryData(1, 1, 1), "chain_ptm"))}

\* The files it is run on when the aggregation is looked at: files of one
\* to MaxChains chains, a file that is not JSON and a file
\* without chain_iptm.
Seeds == {1, 2}

IptmFilesWide ==
    {Malformed, Json(DropKey(SummaryData(1, 1, 1), "chain_iptm"))}
    \cup {Json(SummaryData(n, n, seed)) : n \in 1..MaxChains, seed \in Seeds}

(***************************************************************************)
(* plot_summary                                                            *)
(***************************************************************************)
\* load_data_from_json (lines 24-44): a 5-tuple, or (None, None) when the
\* file is not JSON or lacks one of the four keys read with data[...].
summary_load_data_from_json(file) ==
    IF file.json_ok /\ SummaryKeys \subseteq DOMAIN file.data
    THEN << Array(file.data.chain_pair_iptm),
            [k \in {"fraction_disordered", "has_clash", "iptm", "num_recycles",
                    "ptm", "ranking_score"} |-> Get(file.data, k, None)],
            Array(file.data.chain_pair_pae_min),
            Array(file.data.chain_iptm),
            Array(file.data.chain_ptm) >>
    ELSE << None, None >>

\* The message load_data_from_json prints in its except clause.
LoadMessages(ret, f) ==
    IF ret[1] = None THEN << Msg("Error loading JSON file", f) >> ELSE << >>

SummaryNoFiles ==
    /\ script = "plot_summary" /\ pc = "start"
    /\ files = << >>
    /\ printed' = Append(printed, Msg("No matching JSON files found", 0))
    /\ pc' = "done"
    /\ UNCHANGED << script, files, idx, outDir, outputs, raised, opened, figs,
                    reportVars, iptmVars, funVars >>

\* Line 137: the output directory is made.
SummaryFound ==
    /\ script = "plot_summary" /\ pc = "start"
    /\ files # << >>
    /\ outDir' = TRUE
    /\ idx' = 1
    /\ pc' = "loop"
    /\ UNCHANGED << script, files, outputs, printed, raised, opened, figs,
                    reportVars, iptmVars, funVars >>

SummaryEnd ==
    /\ script = "plot_summary" /\ pc = "loop"
    /\ idx > Len(files)
    /\ pc' = "done"
    /\ UNCHANGED << script, batchVars, reportVars, iptmVars, funVars >>

\* Lines 140-144 and 163-164: the file is loaded and the result unpacked
\* into five names; the test on the first decides between plot and skip.
SummaryLoad ==
    /\ script = "plot_summary" /\ pc = "loop"
    /\ idx <= Len(files)
    /\ LET ret == summary_load_data_from_json(files[idx])
       IN  /\ Len(ret) = 5
           /\ opened' = Append(opened, idx)
           /\ IF ret[1] # None
              THEN /\ printed' = Append(printed, Msg("Processing file", idx))
                                 \o LoadMessages(ret, idx)
                   /\ idx' = idx
                   /\ pc' = "plot"
              ELSE /\ printed' = Append(printed, Msg("Processing file", idx))
                                 \o LoadMessages(ret, idx)
                                 \o << Msg("Skipping file due to error", idx) >>
                   /\ idx' = idx + 1
                   /\ pc' = "loop"
    /\ UNCHANGED << script, files, outDir, outputs, raised, figs,
                    reportVars, iptmVars, funVars >>

\* Line 142 when load_data_from_json returned two values: the unpacking
\* raises ValueError, which nothing catches.
SummaryUnpackFails ==
    /\ script = "plot_summary" /\ pc = "loop"
    /\ idx <= Len(files)
    /\ LET ret == summary_load_data_from_json(files[idx])
       IN  /\ Len(ret) # 5
           /\ printed' = Append(printed, Msg("Processing file", idx))
                         \o LoadMessages(ret, idx)
    /\ opened' = Append(opened, idx)
    /\ raised' = "ValueError"
    /\ pc' = "done"
    /\ UNCHANGED << script, files, idx, outDir, outputs, figs,
                    reportVars, iptmVars, funVars >>

\* Lines 152-158: plt.subplots makes a figure, plot_heatmap_with_table makes
\* another (line 61), which becomes the current one.
SummaryPlot ==
    /\ script = "plot_summary" /\ pc = "plot"
    /\ figs' = figs \o << [file |-> idx, by |-> "subplots"],
                          [file |-> idx, by |-> "figure"] >>
    /\ pc' = "save"
    /\ UNCHANGED << script, files, idx, outDir, outputs, printed, raised,
                    opened, reportVars, iptmVars, funVars >>

\* Lines 161-162: the current figure is saved and closed.
SummarySave ==
    /\ script = "plot_summary" /\ pc = "save"
    /\ outputs' = outputs \cup {[file |-> idx, name |-> "summary.png",
                                 fig |-> figs[Len(figs)]]}
    /\ figs' = SubSeq(figs, 1, Len(figs) - 1)
    /\ idx' = idx + 1
    /\ pc' = "loop"
    /\ UNCHANGED << script, files, outDir, printed, raised, opened,
                    reportVars, iptmVars, funVars >>

(***************************************************************************)
(* plot_pae_plddt_contact                                                  *)
(***************************************************************************)
\* np.array(m).size of a list of lists
Size(m) == IF m = << >> THEN 0 ELSE Len(m) * Len(m[1])

\* load_data_from_json (lines 16-32): a 5-tuple, or six None when the file
\* is not JSON or 'pae' or 'atom_plddts' is empty or missing.
pae_load_data_from_json(file) ==
    IF ~file.json_ok
    THEN << None, None, None, None, None, None >>
    ELSE LET pae_matrix == Get(file.data, "pae", << >>)
             plddt_scores == Get(file.data, "atom_plddts", << >>)
         IN  IF Size(pae_matrix) = 0 \/ plddt_scores = << >>
             THEN << None, None, None, None, None, None >>
             ELSE << Array(pae_matrix), plddt_scores,
                     Get(file.data, "token_chain_ids", << >>),
                     Get(file.data, "token_res_ids", << >>),
                     Array(Get(file.data, "contact_probs", << >>)) >>

PaeNoFiles ==
    /\ script = "plot_pae_plddt_contact" /\ pc = "start"
    /\ files = << >>
    /\ printed' = Append(printed, Msg("No matching JSON files found", 0))
    /\ pc' = "done"
    /\ UNCHANGED << script, files, idx, outDir, outputs, raised, opened, figs,
                    reportVars, iptmVars, funVars >>

\* Line 211: the output directory is made.
PaeFound ==
    /\ script = "plot_pae_plddt_contact" /\ pc = "start"
    /\ files # << >>
    /\ outDir' = TRUE
    /\ idx' = 1
    /\ pc' = "loop"
    /\ UNCHANGED << script, files, outputs, printed, raised, opened, figs,
                    reportVars, iptmVars, funVars >>

PaeEnd ==
    /\ script = "plot_pae_plddt_contact" /\ pc = "loop"
    /\ idx > Len(files)
    /\ pc' = "done"
    /\ UNCHANGED << script, batchVars, reportVars, iptmVars, funVars >>

\* Lines 214-216: the file is loaded and the result unpacked into five names.
PaeLoad ==
    /\ script = "plot_pae_plddt_contact" /\ pc = "loop"
    /\ idx <= Len(files)
    /\ LET ret == pae_load_data_from_json(files[idx])
       IN  /\ Len(ret) = 5
           /\ opened' = Append(opened, idx)
           /\ printed' = Append(printed, Msg("Processing file", idx))
                         \o LoadMessages(ret, idx)
           /\ IF ret[1] # None
              THEN idx' = idx /\ pc' = "plot"
              ELSE idx' = idx + 1 /\ pc' = "loop"
    /\ UNCHANGED << script, files, outDir, outputs, raised, figs,
                    reportVars, iptmVars, funVars >>

\* Line 215 when load_data_from_json returned six values: the unpacking
\* raises ValueError, which nothing catches.
PaeUnpackFails ==
    /\ script = "plot_pae_plddt_contact" /\ pc = "loop"
    /\ idx <= Len(files)
    /\ LET ret == pae_load_data_from_json(files[idx])
       IN  /\ Len(ret) # 5
           /\ printed' = Append(printed, Msg("Processing file", idx))
                         \o LoadMessages(ret, idx)
    /\ opened' = Append(opened, idx)
    /\ raised' = "ValueError"
    /\ pc' = "done"
    /\ UNCHANGED << script, files, idx, outDir, outputs, figs,
                    reportVars, iptmVars, funVars >>

\* plot_combined, lines 151-188: the figure is made and drawn.
PaePlot ==
    /\ script = "plot_pae_plddt_contact" /\ pc = "plot"
    /\ figs' = Append(figs, [file |-> idx, by |-> "figure"])
    /\ pc' = "save"
    /\ UNCHANGED << script, files, idx, outDir, outputs, printed, raised,
                    opened, reportVars, iptmVars, funVars >>

\* plot_combined, lines 191-194: the figure is saved and closed.
PaeSave ==
    /\ script = "plot_pae_plddt_contact" /\ pc = "save"
    /\ outputs' = outputs \cup {[file |-> idx, name |-> "combined.png",
                                 fig |-> figs[Len(figs)]]}
    /\ figs' = SubSeq(figs, 1, Len(figs) - 1)
    /\ printed' = Append(printed, Msg("Combined plot saved", idx))
    /\ idx' = idx + 1
    /\ pc' = "loop"
    /\ UNCHANGED << script, files, outDir, raised, opened,
                    reportVars, iptmVars, funVars >>

(***************************************************************************)
(* plot_iptm_ptm_models                                                    *)
(***************************************************************************)
\* load_data_from_json (lines 25-35): two arrays, or (None, None).
iptm_load_data_from_json(file) ==
    IF file.json_ok /\ {"chain_iptm", "chain_ptm"} \subseteq DOMAIN file.data
    THEN << Array(file.data.chain_iptm), Array(file.data.chain_ptm) >>
    ELSE << None, None >>

\* [chr(i) for i in range(65, 65 + n)], each character as its code point
ChrLabels(n) == [i \in 1..n |-> 64 + i]

\* A slip that empties the aggregates at every file.
InitSeries_EveryFile(agg_iptm, agg, chain_data) ==
    [i \in 1..Len(chain_data) |-> << >>]

\* Lines 120-123: an aggregate gets one empty series per chain of the first
\* file loaded (and again for as long as the IPTM aggregate is empty).
InitSeries(agg_iptm, agg, chain_data) ==
    IF agg_iptm = << >> THEN [i \in 1..Len(chain_data) |-> << >>] ELSE agg

\* Lines 126-128, from chain i on (counted from 1): IndexError when an
\* aggregate or chain_ptm_data has no i-th element.
RECURSIVE AppendChains(_, _, _, _, _)
AppendChains(agg_iptm, agg_ptm, chain_iptm_data, chain_ptm_data, i) ==
    IF i > Len(chain_iptm_data)
    THEN [iptm |-> agg_iptm, ptm |-> agg_ptm, err |-> "none"]
    ELSE IF i > Len(agg_iptm)
    THEN [iptm |-> agg_iptm, ptm |-> agg_ptm, err |-> "IndexError"]
    ELSE LET a == [agg_iptm EXCEPT ![i] = Append(@, chain_iptm_data[i])]
         IN  IF i > Len(agg_ptm) \/ i > Len(chain_ptm_data)
             THEN [iptm |-> a, ptm |-> agg_ptm, err |-> "IndexError"]
             ELSE AppendChains(a,
                               [agg_ptm EXCEPT ![i] = Append(@, chain_ptm_data[i])],
                               chain_iptm_data, chain_ptm_data, i + 1)

\* Lines 114-128 on one loaded file: the aggregates as they are left.
Aggregate(agg_iptm, agg_ptm, ret) ==
    AppendChains(InitSeries(agg_iptm, agg_iptm, ret[1].array),
                 InitSeries(agg_iptm, agg_ptm, ret[2].array),
                 ret[1].array, ret[2].array, 1)

(***************************************************************************)
(* The chain colours of plot_boxplot and add_chain_boundaries.             *)
(***************************************************************************)
\* The number of colours (ListedColormap.N) of matplotlib's qualitative
\* colormaps: tab10 has 10, tab20 has 20, and tab20c has 20 as well (five
\* hues in four shades each).
tab10_N == 10
tab20_N == 20
tab20c_N == 20

\* colormaps[name] / get_cmap(name): the colormap, as its name and its size.
colormaps(name) ==
    [name |-> name,
     N |-> CASE name = "tab10" -> tab10_N
             [] name = "tab20" -> tab20_N
             [] name = "tab20c" -> tab20c_N]

\* "Choose a colormap with enough colors": the if / elif / else on num_chains.
ChooseColormap(num_chains) ==
    IF num_chains <= 10 THEN colormaps("tab10")
    ELSE IF num_chains <= 20 THEN colormaps("tab20")
    ELSE colormaps("tab20c")

\* color_palette(i / num_chains): a colormap called with a float x in [0, 1)
\* gives its entry floor(x * N); x is the quotient num / den.
ColorAtFraction(color_palette, num, den) ==
    [cmap |-> color_palette.name, entry |-> (num * color_palette.N) \div den]

\* color_palette(k): a colormap called with an integer k >= 0 gives its
\* entry k, and its last entry when k is beyond it.
ColorAtIndex(color_palette, k) ==
    [cmap |-> color_palette.name,
     entry |-> IF k >= color_palette.N THEN color_palette.N - 1 ELSE k]

\* colors = [color_palette(i / num_chains) for i in range(num_chains)]
FractionColors(color_palette, num_chains) ==
    [k \in 1..num_chains |-> ColorAtFraction(color_palette, k - 1, num_chains)]

\* zip(token_chain_ids, token_res_ids) stops at the shorter list.
ZipLen(token_chain_ids, token_res_ids) ==
    IF Len(token_res_ids) < Len(token_chain_ids)
    THEN Len(token_res_ids) ELSE Len(token_chain_ids)

\* The loop of add_chain_boundaries (lines 85-93) from its turn i, counted
\* from 0 as enumerate does; start and end are token indices from 0.
\* current_chain is << >> while it is None and << chain_id >> afterwards.
RECURSIVE ChainRangesFrom(_, _, _, _, _, _)
ChainRangesFrom(token_chain_ids, token_res_ids, i, current_chain, start, chain_ranges) ==
    IF i >= ZipLen(token_chain_ids, token_res_ids)
    THEN chain_ranges
    ELSE LET chain_id == token_chain_ids[i + 1]
             current == IF current_chain = << >> THEN chain_id
                        ELSE current_chain[1]
             is_last == i = Len(token_chain_ids) - 1
         IN  IF chain_id # current \/ is_last
             THEN LET end == IF is_last THEN i - 1 ELSE i
                  IN  ChainRangesFrom(token_chain_ids, token_res_ids, i + 1,
                                      << chain_id >>, i,
                                      Append(chain_ranges,
                                             << current, start, end >>))
             ELSE ChainRangesFrom(token_chain_ids, token_res_ids, i + 1,
                                  << current >>, start, chain_ranges)

\* add_chain_boundaries(token_chain_ids, token_res_ids, ax): the ranges it
\* derives, the colormap it chooses and the colour it draws each range with
\* (color_palette(idx % color_palette.N), idx counted from 0).
add_chain_boundaries(token_chain_ids, token_res_ids) ==
    LET chain_ranges == ChainRangesFrom(token_chain_ids, token_res_ids, 0,
                                        << >>, 0, << >>)
        num_chains == Len(chain_ranges)
        color_palette == ChooseColormap(num_chains)
    IN  [chain_ranges |-> chain_ranges,
         color_palette |-> color_palette,
         colors |-> FractionColors(color_palette, num_chains),
         line_colors |->
             [k \in 1..num_chains |->
                 ColorAtIndex(color_palette, (k - 1) % color_palette.N)]]

\* plot_boxplot as called at lines 134-135: what it draws, and the colormap
\* and the box colours it chooses from the number of labels.
plot_boxplot(series, title, labels, filename) ==
    LET num_chains == Len(labels)
        color_palette == ChooseColormap(num_chains)
    IN  [data |-> series, title |-> title, labels |-> labels,
         filename |-> filename,
         color_palette |-> color_palette,
         colors |-> FractionColors(color_palette, num_chains)]

IptmNoFiles ==
    /\ script = "plot_iptm_ptm_models" /\ pc = "start"
    /\ files = << >>
    /\ printed' = Append(printed, Msg("No matching JSON files found", 0))
    /\ pc' = "done"
    /\ UNCHANGED << script, files, idx, outDir, outputs, raised, opened, figs,
                    reportVars, iptmVars, funVars >>

\* Lines 100-105: the output directory is made, the aggregates start empty.
IptmFound ==
    /\ script = "plot_iptm_ptm_models" /\ pc = "start"
    /\ files # << >>
    /\ outDir' = TRUE
    /\ aggregated_chain_iptm_data' = << >>
    /\ aggregated_chain_ptm_data' = << >>
    /\ all_labels' = << >>
    /\ idx' = 1
    /\ pc' = "loop"
    /\ UNCHANGED << script, files, outputs, printed, raised, opened, figs,
                    boxplots, reportVars, funVars >>

\* Lines 108-128: one file is loaded and its chains are aggregated.
IptmLoad ==
    /\ script = "plot_iptm_ptm_models" /\ pc = "loop"
    /\ idx <= Len(files)
    /\ LET ret == iptm_load_data_from_json(files[idx])
       IN  /\ ret[1] # None /\ ret[2] # None
           /\ LET r == Aggregate(aggregated_chain_iptm_data,
                                 aggregated_chain_ptm_data, ret)
              IN  /\ r.err = "none"
                  /\ aggregated_chain_iptm_data' = r.iptm
                  /\ aggregated_chain_ptm_data' = r.ptm
           /\ all_labels' = ChrLabels(Len(ret[1].array))
    /\ opened' = Append(opened, idx)
    /\ printed' = Append(printed, Msg("Processing file", idx))
    /\ idx' = idx + 1
    /\ UNCHANGED << script, files, pc, outDir, outputs, raised, figs,
                    boxplots, reportVars, funVars >>

\* The same when a series or a score is missing: IndexError, uncaught.
IptmIndexError ==
    /\ script = "plot_iptm_ptm_models" /\ pc = "loop"
    /\ idx <= Len(files)
    /\ LET ret == iptm_load_data_from_json(files[idx])
       IN  /\ ret[1] # None /\ ret[2] # None
           /\ LET r == Aggregate(aggregated_chain_iptm_data,
                                 aggregated_chain_ptm_data, ret)
              IN  /\ r.err # "none"
                  /\ aggregated_chain_iptm_data' = r.iptm
                  /\ aggregated_chain_ptm_data' = r.ptm
                  /\ raised' = r.err
           /\ all_labels' = ChrLabels(Len(ret[1].array))
    /\ opened' = Append(opened, idx)
    /\ printed' = Append(printed, Msg("Processing file", idx))
    /\ pc' = "done"
    /\ UNCHANGED << script, files, idx, outDir, outputs, figs,
                    boxplots, reportVars, funVars >>

\* Lines 129-130: a file that did not load is skipped.
IptmSkip ==
    /\ script = "plot_iptm_ptm_models" /\ pc = "loop"
    /\ idx <= Len(files)
    /\ LET ret == iptm_load_data_from_json(files[idx])
       IN  /\ ret[1] = None \/ ret[2] = None
           /\ printed' = Append(printed, Msg("Processing file", idx))
                         \o LoadMessages(ret, idx)
                         \o << Msg("Skipping file due to error", idx) >>
    /\ opened' = Append(opened, idx)
    /\ idx' = idx + 1
    /\ UNCHANGED << script, files, pc, outDir, outputs, raised, figs,
                    iptmVars, reportVars, funVars >>

\* Lines 132-135: the two boxplots are drawn and saved.
IptmPlot ==
    /\ script = "plot_iptm_ptm_models" /\ pc = "loop"
    /\ idx > Len(files)
    /\ aggregated_chain_iptm_data # << >> /\ aggregated_chain_ptm_data # << >>
    /\ boxplots' = << plot_boxplot(aggregated_chain_iptm_data, "Chain IPTM Data",
                                   all_labels, "chain_iptm_data.png"),
                      plot_boxplot(aggregated_chain_ptm_data, "Chain PTM Data",
                                   all_labels, "chain_ptm_data.png") >>
    /\ outputs' = outputs \cup {[file |-> 0, name |-> "chain_iptm_data.png",
                                 fig |-> None],
                                [file |-> 0, name |-> "chain_ptm_data.png",
                                 fig |-> None]}
    /\ pc' = "done"
    /\ UNCHANGED << script, files, idx, outDir, printed, raised, opened, figs,
                    aggregated_chain_iptm_data, aggregated_chain_ptm_data,
                    all_labels, reportVars, funVars >>

\* Lines 136-137.
IptmNoData ==
    /\ script = "plot_iptm_ptm_models" /\ pc = "loop"
    /\ idx > Len(files)
    /\ ~(aggregated_chain_iptm_data # << >> /\ aggregated_chain_ptm_data # << >>)
    /\ printed' = Append(printed, Msg("No valid data to plot.", 0))
    /\ pc' = "done"
    /\ UNCHANGED << script, files, idx, outDir, outputs, raised, opened, figs,
                    iptmVars, reportVars, funVars >>

(***************************************************************************)
(* Functions applied on their own.                                         *)
(***************************************************************************)
\* generate_chain_labels(start_index, count)
CallGenerateChainLabels ==
    /\ script = "generate_chain_labels" /\ pc = "call"
    /\ result' = generate_chain_labels(args.start_index, args.count)
    /\ pc' = "returned"
    /\ UNCHANGED << script, batchVars, reportVars, iptmVars, args >>

\* sequence_lines = wrap_long_text(text, max_length)  (line 100)
CallWrapLongText ==
    /\ script = "wrap_long_text" /\ pc = "call"
    /\ result' = wrap_long_text(args.text, args.max_length)
    /\ pc' = "returned"
    /\ UNCHANGED << script, batchVars, reportVars, iptmVars, args >>

\* for line in sequence_lines: ...  (lines 101-103), on a fresh canvas
DrawWrappedLines ==
    /\ script = "wrap_long_text" /\ pc = "returned"
    /\ LET st == DrawLines(result, 1, Canvas0)
       IN  /\ drawn' = st.draws
           /\ y_position' = st.y
           /\ pages' = st.pages
    /\ pc' = "drawn"
    /\ UNCHANGED << script, batchVars, data, last_used_index, iptmVars, funVars >>

\* add_chain_boundaries(token_chain_ids, token_res_ids, ax)  (lines 174, 181)
CallAddChainBoundaries ==
    /\ script = "add_chain_boundaries" /\ pc = "call"
    /\ result' = add_chain_boundaries(args.token_chain_ids, args.token_res_ids)
    /\ pc' = "returned"
    /\ UNCHANGED << script, batchVars, reportVars, iptmVars, args >>

\* plot_boxplot(data, title, labels, output_dir, filename)
CallPlotBoxplot ==
    /\ script = "plot_boxplot" /\ pc = "call"
    /\ result' = plot_boxplot(args.data, args.title, args.labels, args.filename)
    /\ pc' = "returned"
    /\ UNCHANGED << script, batchVars, reportVars, iptmVars, args >>

(***************************************************************************)
(* Initial states and specifications.                                      *)
(***************************************************************************)
\* The state before a program starts, for the files and arguments given.
Start(s, fs, a, p) ==
    /\ script = s
    /\ files = fs
    /\ args = a
    /\ pc = p
    /\ idx = 0
    /\ outDir = FALSE
    /\ outputs = {}
    /\ printed = << >>
    /\ raised = "none"
    /\ opened = << >>
    /\ figs = << >>
    /\ data = << >>
    /\ last_used_index = 0
    /\ drawn = << >>
    /\ y_position = height - margin
    /\ pages = 0
    /\ aggregated_chain_iptm_data = << >>
    /\ aggregated_chain_ptm_data = << >>
    /\ all_labels = << >>
    /\ boxplots = << >>
    /\ result = None

NoArgs == [none |-> TRUE]

\* The files each batch script may find in its folder.
FilesOf(s) ==
    CASE s = "create_report" -> JobFiles
      [] s = "plot_summary" -> SummaryFiles
      [] s = "plot_pae_plddt_contact" -> FullDataFiles
      [] s = "plot_iptm_ptm_models" -> IptmFiles

Scripts == {"create_report", "plot_summary", "plot_pae_plddt_contact",
            "plot_iptm_ptm_models"}

\* Any of the four scripts, run on a folder of up to MaxFiles matching files.
Init ==
    \E s \in Scripts :
        \E fs \in SeqsUpTo(FilesOf(s), MaxFiles) : Start(s, fs, NoArgs, "start")

CreateReport ==
    \/ MainNoFiles \/ MainFound \/ MainNext \/ MainEnd
    \/ ReportLoad \/ ReportLoadFails \/ ReportLabel \/ ReportLabelFails
    \/ ReportRender \/ ReportRenderFails \/ ReportSave

PlotSummary ==
    \/ SummaryNoFiles \/ SummaryFound \/ SummaryEnd
    \/ SummaryLoad \/ SummaryUnpackFails \/ SummaryPlot \/ SummarySave

PlotPae ==
    \/ PaeNoFiles \/ PaeFound \/ PaeEnd
    \/ PaeLoad \/ PaeUnpackFails \/ PaePlot \/ PaeSave

PlotIptm ==
    \/ IptmNoFiles \/ IptmFound \/ IptmLoad \/ IptmIndexError \/ IptmSkip
    \/ IptmPlot \/ IptmNoData

Next == CreateReport \/ PlotSummary \/ PlotPae \/ PlotIptm

Spec == Init /\ [][Next]_vars

\* create_report on a folder holding one job-request file.
InitReport ==
    \E f \in JobRequests : Start("create_report", << f >>, NoArgs, "start")

NextReport ==
    \/ MainFound \/ MainNext \/ MainEnd
    \/ ReportLoad \/ ReportLabel \/ ReportRender \/ ReportRenderFails
    \/ ReportSave

SpecReport == InitReport /\ [][NextReport]_vars

\* plot_iptm_ptm_models on up to MaxSummaries files of any number of chains.
InitIptm ==
    \E fs \in SeqsUpTo(IptmFilesWide, MaxSummaries) :
        Start("plot_iptm_ptm_models", fs, NoArgs, "start")

SpecIptm == InitIptm /\ [][PlotIptm]_vars

\* generate_chain_labels on a start index and a count, or on the index a
\* word over A..Z stands for.
Words == UNION {[1..k -> {alphabet[i] : i \in 1..Len(alphabet)}] : k \in 1..MaxWordLen}

\* The letter's position in the alphabet, from 0.
LetterIndex(c) == (CHOOSE i \in 1..Len(alphabet) : alphabet[i] = c) - 1

\* The index a word stands for in bijective base 26, counted from 0:
\* A is 0, Z is 25, AA is 26.
RECURSIVE WordIndex(_)
WordIndex(w) ==
    IF w = << >>
    THEN -1
    ELSE (WordIndex(SubSeq(w, 1, Len(w) - 1)) + 1) * Len(alphabet)
         + LetterIndex(w[Len(w)])

InitLabels ==
    \/ \E s \in 0..MaxStart, c \in 0..MaxCount :
          Start("generate_chain_labels", << >>,
                [start_index |-> s, count |-> c, word |-> << >>], "call")
    \/ \E w \in Words :
          Start("generate_chain_labels", << >>,
                [start_index |-> WordIndex(w), count |-> 1, word |-> w], "call")

SpecLabels == InitLabels /\ [][CallGenerateChainLabels]_vars

\* wrap_long_text on any text and any max_length >= 1, then the loop that
\* draws the lines.
InitWrap ==
    \E t \in SeqsUpTo({"A", "C"}, MaxTextLen), w \in 1..MaxWidth :
        Start("wrap_long_text", << >>, [text |-> t, max_length |-> w], "call")

NextWrap == CallWrapLongText \/ DrawWrappedLines

SpecWrap == InitWrap /\ [][NextWrap]_vars

\* The chain IDs of the tokens of a complex of n chains, each of t tokens:
\* chain A's tokens first, then chain B's, and so on.
TokensOfChains(n, t) == [k \in 1..(n * t) |-> alphabet[((k - 1) \div t) + 1]]

\* The arguments of add_chain_boundaries for a list of chain IDs; the residue
\* numbers have the same length.
BoundaryArgs(token_chain_ids) ==
    [token_chain_ids |-> token_chain_ids,
     token_res_ids |-> [k \in 1..Len(token_chain_ids) |-> k]]

\* The arguments of plot_boxplot for n chains, one score in each series.
BoxplotArgs(n) ==
    [data |-> [i \in 1..n |-> << i >>], title |-> "Chain IPTM Data",
     labels |-> ChrLabels(n), filename |-> "chain_iptm_data.png"]

\* add_chain_boundaries on any list of up to MaxTokens chain IDs and on
\* complexes of up to MaxDrawnChains chains of one or two tokens each, and
\* plot_boxplot on up to MaxDrawnChains chains.
InitChains ==
    \/ \E ids \in SeqsUpTo({"A", "B", "C"}, MaxTokens) :
          Start("add_chain_boundaries", << >>, BoundaryArgs(ids), "call")
    \/ \E n \in 1..MaxDrawnChains, t \in 1..2 :
          Start("add_chain_boundaries", << >>,
                BoundaryArgs(TokensOfChains(n, t)), "call")
    \/ \E n \in 1..MaxDrawnChains :
          Start("plot_boxplot", << >>, BoxplotArgs(n), "call")

NextChains == CallAddChainBoundaries \/ CallPlotBoxplot

SpecChains == InitChains /\ [][NextChains]_vars

(***************************************************************************)
(* Properties of the batch loops (specification Spec).                     *)
(***************************************************************************)
\* File i has an output written for it.
HasOutput(i) == \E o \in outputs : o.file = i

\* Message m was printed about file i.
Printed(m, i) == \E k \in 1..Len(printed) : printed[k] = Msg(m, i)

\* Every matched file was opened, in order.
AllOpened == opened = [i \in 1..Len(files) |-> i]

\* What makes a summary_confidences file fail to load in plot_summary.
SummaryFileIsBad(f) == ~f.json_ok \/ ~(SummaryKeys \subseteq DOMAIN f.data)

\* C1: when plot_summary.process_folder ends, it has raised no exception,
\* every matched file was processed, every file that loads has its plot, and
\* every file that fails to load has no plot and was reported as skipped.
C1_SummarySkipsBadFiles ==
    (script = "plot_summary" /\ pc = "done") =>
        /\ raised = "none"
        /\ AllOpened
        /\ \A i \in 1..Len(files) :
              IF SummaryFileIsBad(files[i])
              THEN ~HasOutput(i) /\ Printed("Skipping file due to error", i)
              ELSE HasOutput(i)

\* What makes a full_data file fail to load in plot_pae_plddt_contact.
FullDataFileIsBad(f) ==
    \/ ~f.json_ok
    \/ ~HasKey(f.data, "pae") \/ ~HasKey(f.data, "atom_plddts")
    \/ f.data.pae = << >> \/ f.data.atom_plddts = << >>

\* C2: when plot_pae_plddt_contact.process_folder ends, it has raised no
\* exception, every matched file was processed, every file that loads has
\* its combined plot, and every file that fails to load has no plot and a
\* message printed about it.
C2_PaeSkipsBadFiles ==
    (script = "plot_pae_plddt_contact" /\ pc = "done") =>
        /\ raised = "none"
        /\ AllOpened
        /\ \A i \in 1..Len(files) :
              IF FullDataFileIsBad(files[i])
              THEN ~HasOutput(i) /\ Printed("Error loading JSON file", i)
              ELSE HasOutput(i)

\* The chains of a sequence object that is a proteinChain or a dnaSequence.
ChainsOf(sequence) ==
    {sequence[k] : k \in DOMAIN sequence \cap {"proteinChain", "dnaSequence"}}

\* What makes a job-request file bad: not JSON, or a required key missing.
JobFileIsBad(f) ==
    \/ ~f.json_ok
    \/ \E e \in 1..Len(f.data) :
          \/ ~({"name", "modelSeeds", "sequences"} \subseteq DOMAIN f.data[e])
          \/ \E q \in 1..Len(f.data[e].sequences) :
                \E c \in ChainsOf(f.data[e].sequences[q]) :
                    ~({"count", "sequence"} \subseteq DOMAIN c)

\* A job-request file of protein and DNA chains only, every key present.
JobFileIsPlain(f) ==
    /\ ~JobFileIsBad(f)
    /\ \A e \in 1..Len(f.data) :
          \A q \in 1..Len(f.data[e].sequences) :
              ChainsOf(f.data[e].sequences[q]) # {}

\* C3: when create_report.main ends on a folder of several files of which
\* exactly one is bad and the others are plain, the bad file has no PDF and a
\* message printed about it, and every other file has its PDF, wherever the
\* bad file stands.
C3_ReportSkipsBadFile ==
    (/\ script = "create_report" /\ pc = "done"
     /\ Len(files) >= 2
     /\ Cardinality({i \in 1..Len(files) : JobFileIsBad(files[i])}) = 1
     /\ \A i \in 1..Len(files) :
           JobFileIsBad(files[i]) \/ JobFileIsPlain(files[i])) =>
        \A i \in 1..Len(files) :
            IF JobFileIsBad(files[i])
            THEN ~HasOutput(i) /\ Printed("Unexpected error", i)
            ELSE HasOutput(i)

\* C4: in each of the four scripts, when no file matches, no exception is
\* raised, the output directory is not made and no output is written, the
\* program goes from its start straight to its end, and it ends with exactly
\* one message printed.
C4_NoMatchEndsQuietly ==
    (script \in Scripts /\ files = << >>) =>
        /\ raised = "none"
        /\ ~outDir
        /\ outputs = {}
        /\ pc \in {"start", "done"}
        /\ pc = "start" => ENABLED Next
        /\ pc = "done" =>
              /\ Len(printed) = 1
              /\ printed[1].msg \in {"Error: No files matching",
                                     "No matching JSON files found"}

\* Witness of C4: create_report has ended on a folder with no match.
C4_Witness ==
    script = "create_report" /\ files = << >> /\ pc = "done" /\ printed # << >>

\* File i was dealt with: its output is written and the figure saved for it
\* is closed, or it was skipped.
Completed(i) ==
    \/ /\ HasOutput(i)
       /\ \A o \in outputs :
             o.file = i => \A k \in 1..Len(figs) : figs[k] # o.fig
    \/ Printed("Skipping file due to error", i)

\* C7: in the loops of create_report, plot_summary and plot_pae_plddt_contact
\* the files are opened in order, every file but the last one opened has been
\* completed, and so at most one file is in progress.
C7_OneFileAtATime ==
    script \in {"create_report", "plot_summary", "plot_pae_plddt_contact"} =>
        /\ \A p \in 1..Len(opened) : opened[p] = p
        /\ \A p \in 1..(Len(opened) - 1) : Completed(opened[p])
        /\ Cardinality({p \in 1..Len(opened) : ~Completed(opened[p])}) <= 1

\* Witness of C7: plot_summary has opened its third file, the first two
\* having their plots.
C7_Witness ==
    /\ script = "plot_summary"
    /\ Len(opened) = 3
    /\ HasOutput(1) /\ HasOutput(2)

(***************************************************************************)
(* Properties of generate_chain_labels (specification SpecLabels).         *)
(***************************************************************************)
\* A non-empty word over A..Z.
IsWord(w) ==
    /\ Len(w) >= 1
    /\ \A k \in 1..Len(w) : \E i \in 1..Len(alphabet) : w[k] = alphabet[i]

\* The label the function returned for index n, if n is among those asked.
LabelAt(n) == result[n - args.start_index + 1]

Asked(n) == args.start_index <= n /\ n < args.start_index + args.count

\* C5: generate_chain_labels(start_index, count) returns count labels, the
\* i-th being the word over A..Z that stands for start_index + i in bijective
\* base 26 (0 is A, 25 is Z, 26 is AA, 27 is AB, 701 is ZZ, 702 is AAA); the
\* labels returned are pairwise distinct, and every word over A..Z is the
\* label returned for the index it stands for.
C5_LabelsAreBijectiveBase26 ==
    (script = "generate_chain_labels" /\ pc = "returned") =>
        /\ Len(result) = args.count
        /\ \A i \in 1..Len(result) :
              /\ IsWord(result[i])
              /\ WordIndex(result[i]) = args.start_index + (i - 1)
        /\ \A i, j \in 1..Len(result) : i # j => result[i] # result[j]
        /\ Asked(0) => LabelAt(0) = << "A" >>
        /\ Asked(25) => LabelAt(25) = << "Z" >>
        /\ Asked(26) => LabelAt(26) = << "A", "A" >>
        /\ Asked(27) => LabelAt(27) = << "A", "B" >>
        /\ Asked(701) => LabelAt(701) = << "Z", "Z" >>
        /\ Asked(702) => LabelAt(702) = << "A", "A", "A" >>
        /\ args.word # << >> => result = << args.word >>

\* Witness of C5: the labels of 701, 702 and 703 were returned.
C5_Witness ==
    /\ script = "generate_chain_labels" /\ pc = "returned"
    /\ args.start_index = 701 /\ args.count = 3
    /\ result[1] = << "Z", "Z" >> /\ Len(result[2]) = 3

(***************************************************************************)
(* Properties of generate_alphafold_pdf_report (specification SpecReport). *)
(***************************************************************************)
\* C6: no drawString call of the rendering pass places text below the bottom
\* margin.
C6_NoTextBelowMargin ==
    script = "create_report" =>
        \A k \in 1..Len(drawn) : drawn[k].y >= margin

\* The sequences of all entries of a job-request file, in order.
RECURSIVE FlatSequences(_)
FlatSequences(d) ==
    IF d = << >> THEN << >>
    ELSE d[1].sequences \o FlatSequences(SubSeq(d, 2, Len(d)))

IsChain(sequence) == ChainsOf(sequence) # {}

\* The count of a proteinChain or dnaSequence.
CountOf(sequence) == (CHOOSE c \in ChainsOf(sequence) : TRUE).count

\* The sum of the counts of the chains before position q.
RECURSIVE CountsBefore(_, _)
CountsBefore(flat, q) ==
    IF q <= 1 THEN 0
    ELSE CountsBefore(flat, q - 1)
         + (IF IsChain(flat[q - 1]) THEN CountOf(flat[q - 1]) ELSE 0)

\* The labels given within the file, as pairs of a position and a rank.
LabelSlots(out) ==
    {s \in (1..Len(out)) \X (1..Len(alphabet) + 1) :
        /\ HasKey(out[s[1]], "chainLabels")
        /\ s[2] <= Len(out[s[1]].chainLabels)}

\* C8: after the labelling pass over a file whose chain counts are all >= 1,
\* every proteinChain and dnaSequence has exactly count labels, those of the
\* consecutive indices that start at the sum of the counts of the chains
\* before it in the file; all the labels of the file are pairwise distinct;
\* and last_used_index is the sum of all the counts.
C8_LabelsRunAcrossEntries ==
    (/\ script = "create_report" /\ pc \in {"render", "save"}
     /\ \A q \in 1..Len(FlatSequences(files[idx].data)) :
           LET s == FlatSequences(files[idx].data)[q]
           IN  IsChain(s) => CountOf(s) >= 1) =>
        LET in == FlatSequences(files[idx].data)
            out == FlatSequences(data)
        IN  /\ Len(out) = Len(in)
            /\ \A q \in 1..Len(in) :
                  IsChain(in[q]) =>
                      /\ HasKey(out[q], "chainLabels")
                      /\ Len(out[q].chainLabels) = CountOf(in[q])
                      /\ \A i \in 1..Len(out[q].chainLabels) :
                            /\ IsWord(out[q].chainLabels[i])
                            /\ WordIndex(out[q].chainLabels[i])
                                   = CountsBefore(in, q) + (i - 1)
            /\ \A s, t \in LabelSlots(out) :
                  s # t => out[s[1]].chainLabels[s[2]] # out[t[1]].chainLabels[t[2]]
            /\ last_used_index = CountsBefore(in, Len(in) + 1)

\* Witness of C8: a file of two entries, a chain in each, the second chain
\* labelled beyond Z.
C8_Witness ==
    /\ script = "create_report" /\ pc = "render"
    /\ Len(data) = 2
    /\ Len(data[1].sequences) = 1 /\ Len(data[2].sequences) = 1
    /\ IsChain(data[1].sequences[1]) /\ IsChain(data[2].sequences[1])
    /\ CountOf(data[1].sequences[1]) = Len(alphabet)
    /\ CountOf(data[2].sequences[1]) = 2
    /\ data[2].sequences[1].chainLabels = << << "A", "A" >>, << "A", "B" >> >>

\* C12: when create_report ends on a well-formed job-request file, whatever
\* the kinds of its sequences (proteinChain, dnaSequence or another kind such
\* as rnaSequence), the rendering pass has read no undefined chainLabels: no
\* error was reported and the PDF of the file is written.
C12_ChainLabelsAlwaysDefined ==
    (/\ script = "create_report" /\ pc = "done"
     /\ Len(files) = 1 /\ ~JobFileIsBad(files[1])) =>
        /\ ~Printed("Unexpected error", 1)
        /\ HasOutput(1)

(***************************************************************************)
(* Properties of plot_iptm_ptm_models (specification SpecIptm).            *)
(***************************************************************************)
\* What makes a summary_confidences file load in plot_iptm_ptm_models.
IptmFileLoads(f) ==
    f.json_ok /\ {"chain_iptm", "chain_ptm"} \subseteq DOMAIN f.data

\* The indices of the files that load, in order.
LoadedFiles ==
    LET Loads(i) == IptmFileLoads(files[i])
    IN  SelectSeq([i \in 1..Len(files) |-> i], Loads)

\* Series c holds chain c's score of every loaded file, in order.
OneValuePerFile(series, key) ==
    \A c \in 1..Len(series) :
        /\ Len(series[c]) = Len(LoadedFiles)
        /\ \A k \in 1..Len(LoadedFiles) :
              /\ c <= Len(files[LoadedFiles[k]].data[key])
              /\ series[c][k] = files[LoadedFiles[k]].data[key][c]

\* What C9 says of the boxplots drawn.
BoxplotsAreComplete ==
    /\ OneValuePerFile(boxplots[1].data, "chain_iptm")
    /\ OneValuePerFile(boxplots[2].data, "chain_ptm")
    /\ \A b \in 1..2 : Len(boxplots[b].labels) = Len(boxplots[b].data)
    /\ \A i \in 1..Len(files) :
          ~IptmFileLoads(files[i]) => Printed("Skipping file due to error", i)

\* C9 as stated: whatever the matched files, when the boxplots are drawn
\* every series holds one score per loaded file, that of its chain, the files
\* that did not load were reported as skipped, and there is one label per
\* series.
C9_EverySeriesComplete ==
    (script = "plot_iptm_ptm_models" /\ boxplots # << >>) => BoxplotsAreComplete

\* Every loaded file has n scores in chain_iptm and n in chain_ptm.
UniformChains(n) ==
    \A k \in 1..Len(LoadedFiles) :
        /\ Len(files[LoadedFiles[k]].data.chain_iptm) = n
        /\ Len(files[LoadedFiles[k]].data.chain_ptm) = n

\* C9 amended: the same, for matched files whose loaded files all have the
\* same number of chains, in chain_iptm and in chain_ptm alike; there is then
\* one series per chain.
C9_EverySeriesCompleteWhenUniform ==
    \A n \in 0..(MaxChains + 1) :
        (script = "plot_iptm_ptm_models" /\ boxplots # << >> /\ UniformChains(n)) =>
            /\ BoxplotsAreComplete
            /\ \A b \in 1..2 : Len(boxplots[b].data) = n

\* Witness of C9: boxplots of two chains drawn from two loaded files, a
\* third file having been skipped.
C9_Witness ==
    /\ script = "plot_iptm_ptm_models" /\ boxplots # << >>
    /\ Len(files) = 3
    /\ Len(LoadedFiles) = 2
    /\ UniformChains(2)
    /\ Len(boxplots[1].data[2]) = 2

(***************************************************************************)
(* Properties of wrap_long_text (specification SpecWrap).                  *)
(***************************************************************************)
RECURSIVE Concat(_)
Concat(lines) ==
    IF lines = << >> THEN << >>
    ELSE lines[1] \o Concat(SubSeq(lines, 2, Len(lines)))

\* C10: the lines wrap_long_text returns, put together in order, are the
\* text; no line is empty or longer than max_length, every line but the last
\* has max_length characters, the empty text has no line; and the loop that
\* follows draws each line once, in order, each line_spacing below the one
\* before, and leaves the cursor line_spacing below the last.
C10_WrapLosesNothing ==
    (script = "wrap_long_text" /\ pc \in {"returned", "drawn"}) =>
        /\ Concat(result) = args.text
        /\ \A k \in 1..Len(result) :
              /\ Len(result[k]) >= 1
              /\ Len(result[k]) <= args.max_length
              /\ k < Len(result) => Len(result[k]) = args.max_length
        /\ args.text = << >> => result = << >>
        /\ pc = "drawn" =>
              /\ Len(drawn) = Len(result)
              /\ \A k \in 1..Len(drawn) :
                    /\ drawn[k].text = result[k]
                    /\ drawn[k].y = (height - margin) - (k - 1) * line_spacing
              /\ y_position = (height - margin) - Len(result) * line_spacing

\* Witness of C10: a text wrapped into two full lines and a shorter one, all
\* three drawn.
C10_Witness ==
    /\ script = "wrap_long_text" /\ pc = "drawn"
    /\ Len(result) = 3
    /\ Len(result[3]) < args.max_length
    /\ Len(drawn) = 3

(***************************************************************************)
(* Properties of the chain ranges and colours (specification SpecChains).  *)
(***************************************************************************)
\* Two entries of a list of colours differ, in colormap or in entry.
Distinct(colors, j, k) == colors[j] # colors[k]

\* C11: the colormap chosen from the number of chains has at least as many
\* colours as there are chains, and no two different chains are drawn with
\* the same colour: in add_chain_boundaries, where range idx is drawn with
\* entry idx mod N, and in plot_boxplot, where box i is drawn with the colour
\* at position i / num_chains.
C11_EnoughColours ==
    /\ (script = "add_chain_boundaries" /\ pc = "returned") =>
          LET chain_ranges == result.chain_ranges
          IN  /\ result.color_palette.N >= Len(chain_ranges)
              /\ \A j, k \in 1..Len(chain_ranges) :
                    chain_ranges[j][1] # chain_ranges[k][1] =>
                        Distinct(result.line_colors, j, k)
    /\ (script = "plot_boxplot" /\ pc = "returned") =>
          /\ result.color_palette.N >= Len(result.labels)
          /\ \A j, k \in 1..Len(result.labels) :
                j # k => Distinct(result.colors, j, k)

\* The indices, from 0, at which a maximal run of equal consecutive chain IDs
\* starts.
RunStarts(token_chain_ids) ==
    {i \in 0..(Len(token_chain_ids) - 1) :
        i = 0 \/ token_chain_ids[i + 1] # token_chain_ids[i]}

\* C13: for any list of n >= 1 chain IDs and as many residue numbers, the
\* chain ranges of add_chain_boundaries are one per maximal run of equal
\* consecutive chain IDs, in token order, each labelled with its run's chain
\* ID and starting at its run's first token; every range has start <= end,
\* and the last range ends at the last token, n - 1.
C13_OneRangePerRun ==
    (/\ script = "add_chain_boundaries" /\ pc = "returned"
     /\ Len(args.token_chain_ids) >= 1
     /\ Len(args.token_res_ids) = Len(args.token_chain_ids)) =>
        LET token_chain_ids == args.token_chain_ids
            chain_ranges == result.chain_ranges
        IN  /\ Len(chain_ranges) = Cardinality(RunStarts(token_chain_ids))
            /\ \A k \in 1..Len(chain_ranges) :
                  /\ chain_ranges[k][2] \in RunStarts(token_chain_ids)
                  /\ chain_ranges[k][1] = token_chain_ids[chain_ranges[k][2] + 1]
                  /\ k > 1 => chain_ranges[k - 1][2] < chain_ranges[k][2]
                  /\ chain_ranges[k][2] <= chain_ranges[k][3]
            /\ chain_ranges[Len(chain_ranges)][3] = Len(token_chain_ids) - 1

=============================================================================
